---- MODULE Spec2Model ----
(***************************************************************************)
(* A model of iroh-bytes/src/store/traits.rs: the garbage collector of the *)
(* blob store (gc_mark_task, gc_sweep_task and the Store operations they   *)
(* use) and the batch writers (CombinedBatchWriter,                        *)
(* FallibleProgressBatchWriter).                                           *)
(*                                                                         *)
(* gc_mark and gc_sweep are generators: one action of the model is one     *)
(* poll of the stream, the code that runs from one co.yield_ to the next.  *)
(* The awaits on data_reader, parse_hash_seq and stream.next are inside    *)
(* the poll that reaches them; each of their outcomes is a choice.         *)
(***************************************************************************)
EXTENDS Integers, Sequences, FiniteSets, TLC

\* ------------------------------------------------------------------ bounds
MaxHash == 2
MaxCycles == 2
MaxBlobs == 201
MaxBatchLen == 2

\* ------------------------------------------------------------- data model
Hashes == 0..MaxHash
Raw == "Raw"
HashSeq == "HashSeq"
BlobFormat == {Raw, HashSeq}
HashAndFormat == [hash : Hashes, format : BlobFormat]
TagNames == {"keep"}
NoHash == -1
\* set_tag(name, None): the name has no tag.
NoTag == [hash |-> NoHash, format |-> "None"]
\* The TempTag handles: one that store.temp_tag has not made yet, and one
\* that was held and has been dropped.
NotMade == [hash |-> NoHash, format |-> "NotMade"]
Dropped == [hash |-> NoHash, format |-> "Dropped"]
TempTagIds == {"a"}
\* An Err item of an iterator of io::Result<HashAndFormat>.
ErrItem == [hash |-> NoHash, format |-> "Err"]

Haf(h, f) == [hash |-> h, format |-> f]

\* BlobFormat::is_raw
IsRaw(format) == format = Raw

\* The derived order of HashAndFormat: by hash, then Raw before HashSeq.
HafLess(a, b) ==
    \/ a.hash < b.hash
    \/ a.hash = b.hash /\ a.format = Raw /\ b.format = HashSeq

\* The iteration order of a BTreeSet<HashAndFormat>.
RECURSIVE RootsInOrder(_)
RootsInOrder(S) ==
    IF S = {} THEN <<>>
    ELSE LET m == CHOOSE x \in S : \A y \in S \ {x} : HafLess(x, y)
         IN  <<m>> \o RootsInOrder(S \ {m})

\* The iteration order of the store's hashes (ascending).
HashesInOrder(S) ==
    LET top == IF MaxHash + 1 > MaxBlobs THEN MaxHash + 1 ELSE MaxBlobs
        InS(h) == h \in S
    IN  SelectSeq([i \in 1..top |-> i - 1], InS)

Range(s) == {s[i] : i \in 1..Len(s)}
Prefix(s, k) == SubSeq(s, 1, k)

\* The content of the blobs: read as a hash sequence, blob 0 lists hash 1, and
\* every later blob but the last lists the next hash and the one before it, so
\* that a blob lists hashes whose own lists reach further. The last blob is
\* the empty sequence.
HashSeqOf(h) ==
    IF h >= MaxHash THEN <<>>
    ELSE IF h = 0 THEN <<1>>
    ELSE <<h + 1, h - 1>>

\* ------------------------------------------------------------------ state
VARIABLES
    complete,      \* the hashes of the complete entries (blobs())
    partial,       \* the hashes of the partial entries (partial_blobs())
    tags,          \* Tag -> HashAndFormat, or NoTag
    tempTags,      \* TempTag handle -> its target while it is held, NotMade, Dropped
    live,          \* the store's live set
    inserts,       \* insert_complete: the entry of the last call, and where the call is
    markPc,        \* gc_mark: the yield the stream is suspended at
    markExtra,     \* gc_mark: the extra_roots argument
    markRoots,     \* gc_mark_task: roots
    markIter,      \* gc_mark_task: what is left of the iterator of the current loop
    markLive,      \* gc_mark_task: live
    markStream,    \* gc_mark_task: what is left of the hash sequence stream
    markEvents,    \* the GcMarkEvents the stream has yielded
    sweepPc,       \* gc_sweep: where the task is
    sweepIter,     \* gc_sweep_task: what is left of blobs
    sweepBatch,    \* gc_sweep_task: batch
    sweepCount,    \* gc_sweep_task: count
    sweepEvents,   \* the GcSweepEvents the stream has yielded
    deleteCalls,   \* the argument of every delete call of this sweep
    wData,         \* CombinedBatchWriter.data: offset -> byte
    wOutboard,     \* CombinedBatchWriter.outboard: node -> pair
    wCall,         \* the last write_batch call: its batch, result and the state before it
    wHook,         \* the calls of on_write made by the last write_batch call
    cycle,         \* the number of gc_mark streams started
    sweeps,        \* the number of gc_sweep streams started

    hist           \* what the properties remember of the run

storeVars == <<complete, partial, tags, tempTags, live, inserts>>
markVars == <<markPc, markExtra, markRoots, markIter, markLive, markStream, markEvents>>
sweepVars == <<sweepPc, sweepIter, sweepBatch, sweepCount, sweepEvents, deleteCalls>>
writerVars == <<wData, wOutboard, wCall, wHook>>
countVars == <<cycle, sweeps>>
vars == <<storeVars, markVars, sweepVars, writerVars, countVars, hist>>

MarkEvent(kind, line, h) == [kind |-> kind, line |-> line, hash |-> h]

MarkIdle == markPc \in {"idle", "done", "failed", "dropped"}
MarkSuspended == ~MarkIdle
\* The yields of gc_mark_task that come after the call of temp_tags().
AfterTempTags ==
    markPc \in {"y455", "y458", "y461", "y469", "y473", "y477", "y481", "y484",
                "y490", "y499"}
SweepIdle == sweepPc \in {"idle", "done", "failed"}

TempHeld == {tempTags[t] : t \in TempTagIds} \cap HashAndFormat
TagTargets == {tags[n] : n \in TagNames} \ {NoTag}
Stored == complete \cup partial

\* --------------------------------------------------------------- the store
\* An add_live that replaces the live set.
AddLiveReplace(lv, hashes) == hashes

\* Store::add_live: the hashes are united into the live set.
AddLive(lv, hashes) == lv \cup hashes

\* Store::is_live
IsLive(lv, h) == h \in lv

\* Store::delete: the hashes leave the store, complete or partial.
Delete(entries, hashes) == entries \ Range(hashes)

\* temp_tags that reports no temp tag.
TempTagsOfNone(tt) == {}

\* ReadableStore::temp_tags: the targets that have a TempTag, each once.
TempTagsOf(tt) == {tt[t] : t \in TempTagIds} \cap HashAndFormat

\* ReadableStore::tags, in the order of the tag names.
TagsOf(tg) ==
    LET names == <<"keep">>
        F[i \in 0..Len(names)] ==
            IF i = 0 THEN <<>>
            ELSE IF tg[names[i]] = NoTag THEN F[i - 1]
            ELSE Append(F[i - 1], tg[names[i]])
    IN  F[Len(names)]

\* The extra_roots a caller of gc_mark passes: none, one that is an error, or
\* one root.
ExtraRootsChoices ==
    {<<>>, <<ErrItem>>, <<Haf(1, HashSeq)>>}

\* ----------------------------------------------------------------- gc_mark
\* Line 467: live.insert(hash) && !format.is_raw(), before the insert.
Traverses(lv, root) == root.hash \notin lv /\ ~IsRaw(root.format)

\* The roots loop up to the next root it inspects: a root that is raw, or whose
\* hash is in live already, is inserted and passed without a yield.
RECURSIVE SkipRoots(_, _)
SkipRoots(q, lv) ==
    IF q = <<>> THEN [iter |-> q, live |-> lv]
    ELSE IF Traverses(lv, Head(q)) THEN [iter |-> q, live |-> lv]
    ELSE SkipRoots(Tail(q), lv \cup {Head(q).hash})

\* What lines 468-483 can come to for hash h: store.get fails, finds nothing,
\* finds a partial entry; data_reader fails; parse_hash_seq fails or succeeds.
InspectOutcomes(h) ==
    {"getErr"} \cup
    (IF h \notin Stored THEN {"missing"}
     ELSE IF h \notin complete THEN {"partial"}
     ELSE {"readerErr", "parseErr", "parsed"})

WarnLine(out) ==
    CASE out = "missing" -> 469
      [] out = "partial" -> 473
      [] out = "readerErr" -> 477
      [] out = "parseErr" -> 481

WarnPc(out) ==
    CASE out = "missing" -> "y469"
      [] out = "partial" -> "y473"
      [] out = "readerErr" -> "y477"
      [] out = "parseErr" -> "y481"

\* A wrapper that drops the task's error.
MarkFailSilent ==
    /\ markPc' = "failed"
    /\ markEvents' = markEvents

\* gc_mark's wrapper: the task returned Err, the stream yields Error and ends.
MarkFail ==
    /\ markPc' = "failed"
    /\ markEvents' = Append(markEvents, MarkEvent("Error", 396, NoHash))

\* Lines 465-499 from the root at the head of q to the next yield.
RootsLoop(q, lv) ==
    LET s == SkipRoots(q, lv)
    IN  IF s.iter = <<>>
        THEN /\ markPc' = "y499"
             /\ markIter' = <<>>
             /\ markLive' = s.live
             /\ markStream' = <<>>
             /\ markEvents' = Append(markEvents, MarkEvent("CustomDebug", 499, NoHash))
        ELSE LET h == Head(s.iter).hash
             IN  /\ markIter' = Tail(s.iter)
                 /\ markLive' = s.live \cup {h}
                 /\ \E out \in InspectOutcomes(h) :
                      CASE out = "getErr" ->
                             /\ MarkFail
                             /\ markStream' = <<>>
                        [] out = "parsed" ->
                             /\ markPc' = "y484"
                             /\ markStream' = HashSeqOf(h)
                             /\ markEvents' =
                                  Append(markEvents, MarkEvent("CustomDebug", 484, h))
                        [] OTHER ->
                             /\ markPc' = WarnPc(out)
                             /\ markStream' = <<>>
                             /\ markEvents' =
                                  Append(markEvents,
                                         MarkEvent("CustomWarning", WarnLine(out), h))

\* The first poll of gc_mark(extra_roots): lines 446-447.
MarkBegin ==
    /\ MarkIdle
    /\ cycle < MaxCycles
    /\ \E extra \in ExtraRootsChoices : markExtra' = extra
    /\ markPc' = "y447"
    /\ markRoots' = {}
    /\ markIter' = <<>>
    /\ markLive' = {}
    /\ markStream' = <<>>
    /\ markEvents' = <<MarkEvent("CustomDebug", 447, NoHash)>>
    /\ cycle' = cycle + 1
    /\ hist' = [tempAtStart |-> TempHeld,
                heldThrough |-> TempHeld,
                acquiredMid |-> {},
                acquiredLate |-> {},
                lateBefore |-> hist.acquiredLate \cap TempHeld,
                tempSeen |-> {},
                storeBefore |-> Stored,
                quiet |-> SweepIdle,
                swept |-> FALSE,
                clean |-> FALSE]
    /\ UNCHANGED <<storeVars, writerVars, sweeps>>

MarkStart ==
    /\ MarkBegin
    /\ UNCHANGED sweepVars

\* The tags loop at its next item: an Err item, a root to add, or the end.
NextTag(it) ==
    IF it = <<>>
    THEN /\ markPc' = "y453"
         /\ markIter' = <<>>
         /\ markEvents' = Append(markEvents, MarkEvent("CustomDebug", 453, NoHash))
    ELSE \/ /\ MarkFail
            /\ markIter' = <<>>
         \/ /\ markPc' = "y450"
            /\ markIter' = it
            /\ markEvents' =
                 Append(markEvents, MarkEvent("CustomDebug", 450, Head(it).hash))

\* Line 448: store.tags() fails, or its first item.
MarkTags ==
    /\ markPc = "y447"
    /\ \/ /\ MarkFail
          /\ markIter' = <<>>
       \/ NextTag(TagsOf(tags))
    /\ UNCHANGED <<markExtra, markRoots, markLive, markStream>>
    /\ UNCHANGED <<storeVars, sweepVars, writerVars, countVars, hist>>

\* Line 451, and the next item of the tags.
MarkAddRoot ==
    /\ markPc = "y450"
    /\ markRoots' = markRoots \cup {Head(markIter)}
    /\ NextTag(Tail(markIter))
    /\ UNCHANGED <<markExtra, markLive, markStream>>
    /\ UNCHANGED <<storeVars, sweepVars, writerVars, countVars, hist>>

NextTemp(it) ==
    IF it = <<>>
    THEN /\ markPc' = "y458"
         /\ markIter' = <<>>
         /\ markEvents' = Append(markEvents, MarkEvent("CustomDebug", 458, NoHash))
    ELSE /\ markPc' = "y455"
         /\ markIter' = it
         /\ markEvents' =
              Append(markEvents, MarkEvent("CustomDebug", 455, Head(it).hash))

\* Line 454: store.temp_tags() is read here, once.
MarkTempTags ==
    /\ markPc = "y453"
    /\ NextTemp(RootsInOrder(TempTagsOf(tempTags)))
    /\ hist' = [hist EXCEPT !.tempSeen = TempTagsOf(tempTags)]
    /\ UNCHANGED <<markExtra, markRoots, markLive, markStream>>
    /\ UNCHANGED <<storeVars, sweepVars, writerVars, countVars>>

\* Line 456 left out: the temp tag is passed over.
MarkAddTempSkipped ==
    /\ markPc = "y455"
    /\ markRoots' = markRoots
    /\ NextTemp(Tail(markIter))
    /\ UNCHANGED <<markExtra, markLive, markStream>>
    /\ UNCHANGED <<storeVars, sweepVars, writerVars, countVars, hist>>

\* Line 456, and the next temp tag.
MarkAddTemp ==
    /\ markPc = "y455"
    /\ markRoots' = markRoots \cup {Head(markIter)}
    /\ NextTemp(Tail(markIter))
    /\ UNCHANGED <<markExtra, markLive, markStream>>
    /\ UNCHANGED <<storeVars, sweepVars, writerVars, countVars, hist>>

\* The extra roots loop at its next item; after the last, line 464 and the
\* roots loop over `roots`.
NextExtra(it, roots) ==
    IF it = <<>> THEN RootsLoop(RootsInOrder(roots), {})
    ELSE IF Head(it) = ErrItem
    THEN /\ MarkFail
         /\ markIter' = <<>>
         /\ UNCHANGED <<markLive, markStream>>
    ELSE /\ markPc' = "y461"
         /\ markIter' = it
         /\ markEvents' =
              Append(markEvents, MarkEvent("CustomDebug", 461, Head(it).hash))
         /\ UNCHANGED <<markLive, markStream>>

\* Line 459.
MarkExtraRoots ==
    /\ markPc = "y458"
    /\ NextExtra(markExtra, markRoots)
    /\ UNCHANGED <<markExtra, markRoots>>
    /\ UNCHANGED <<storeVars, sweepVars, writerVars, countVars, hist>>

\* Line 462, and the next extra root.
MarkAddExtra ==
    /\ markPc = "y461"
    /\ markRoots' = markRoots \cup {Head(markIter)}
    /\ NextExtra(Tail(markIter), markRoots \cup {Head(markIter)})
    /\ UNCHANGED markExtra
    /\ UNCHANGED <<storeVars, sweepVars, writerVars, countVars, hist>>

\* A mark that drops the children of a stream that fails.
MarkChildrenForgets ==
    /\ markPc = "y484"
    /\ \E k \in 0..Len(markStream), ok \in BOOLEAN :
         LET lv == markLive \cup Range(Prefix(markStream, k))
         IN  IF ok
             THEN /\ k = Len(markStream)
                  /\ RootsLoop(markIter, lv)
             ELSE /\ markPc' = "y490"
                  /\ markLive' = markLive
                  /\ markStream' = SubSeq(markStream, k + 1, Len(markStream))
                  /\ markEvents' =
                       Append(markEvents,
                              MarkEvent("CustomWarning", 490,
                                        markEvents[Len(markEvents)].hash))
                  /\ UNCHANGED markIter
    /\ UNCHANGED <<markExtra, markRoots>>
    /\ UNCHANGED <<storeVars, sweepVars, writerVars, countVars, hist>>

\* A mark that recurses: the hashes a child lists are inserted with the child.
MarkChildrenDeep ==
    /\ markPc = "y484"
    /\ \E k \in 0..Len(markStream), ok \in BOOLEAN :
         LET read == Range(Prefix(markStream, k))
             lv == markLive \cup read \cup UNION {Range(HashSeqOf(c)) : c \in read}
         IN  IF ok
             THEN /\ k = Len(markStream)
                  /\ RootsLoop(markIter, lv)
             ELSE /\ markPc' = "y490"
                  /\ markLive' = lv
                  /\ markStream' = SubSeq(markStream, k + 1, Len(markStream))
                  /\ markEvents' =
                       Append(markEvents,
                              MarkEvent("CustomWarning", 490,
                                        markEvents[Len(markEvents)].hash))
                  /\ UNCHANGED markIter
    /\ UNCHANGED <<markExtra, markRoots>>
    /\ UNCHANGED <<storeVars, sweepVars, writerVars, countVars, hist>>

\* Lines 485-496: the children stream.next() yields are inserted; an Err from
\* the stream, after k children, ends the loop with a warning, the stream
\* still holding what it has not yielded.
MarkChildren ==
    /\ markPc = "y484"
    /\ \E k \in 0..Len(markStream), ok \in BOOLEAN :
         LET lv == markLive \cup Range(Prefix(markStream, k))
         IN  IF ok
             THEN /\ k = Len(markStream)
                  /\ RootsLoop(markIter, lv)
             ELSE /\ markPc' = "y490"
                  /\ markLive' = lv
                  /\ markStream' = SubSeq(markStream, k + 1, Len(markStream))
                  /\ markEvents' =
                       Append(markEvents,
                              MarkEvent("CustomWarning", 490,
                                        markEvents[Len(markEvents)].hash))
                  /\ UNCHANGED markIter
    /\ UNCHANGED <<markExtra, markRoots>>
    /\ UNCHANGED <<storeVars, sweepVars, writerVars, countVars, hist>>

\* A mark that publishes what it has so far at each warning.
MarkAfterWarnPublishing ==
    /\ markPc \in {"y469", "y473", "y477", "y481", "y490"}
    /\ RootsLoop(markIter, markLive)
    /\ live' = AddLive(live, markLive)
    /\ UNCHANGED <<markExtra, markRoots>>
    /\ UNCHANGED <<complete, partial, tags, tempTags, inserts>>
    /\ UNCHANGED <<sweepVars, writerVars, countVars, hist>>

\* `continue` after a warning (lines 470, 474, 478, 482), or the end of the
\* loop after line 491.
MarkAfterWarn ==
    /\ markPc \in {"y469", "y473", "y477", "y481", "y490"}
    /\ RootsLoop(markIter, markLive)
    /\ UNCHANGED <<markExtra, markRoots>>
    /\ UNCHANGED <<storeVars, sweepVars, writerVars, countVars, hist>>

\* Lines 500-501: store.add_live(live), and the stream ends.
MarkPublish ==
    /\ markPc = "y499"
    /\ live' = AddLive(live, markLive)
    /\ markPc' = "done"
    /\ UNCHANGED <<complete, partial, tags, tempTags, inserts>>
    /\ UNCHANGED <<markExtra, markRoots, markIter, markLive, markStream, markEvents>>
    /\ UNCHANGED <<sweepVars, writerVars, countVars, hist>>

\* The caller drops the stream before it has ended.
MarkDrop ==
    /\ MarkSuspended
    /\ markPc' = "dropped"
    /\ UNCHANGED <<markExtra, markRoots, markIter, markLive, markStream, markEvents>>
    /\ UNCHANGED <<storeVars, sweepVars, writerVars, countVars, hist>>

\* ---------------------------------------------------------------- gc_sweep
BatchLimit == 100

SweepEvent(kind, n) == [kind |-> kind, count |-> n]

\* A batch that is flushed one hash late.
BatchFullLate(batch) == Len(batch) > BatchLimit

\* Line 514: batch.len() >= 100
BatchFull(batch) == Len(batch) >= BatchLimit

\* A sweep that enqueues the live hashes.
EnqueueLive(batch, lv, h) == IF IsLive(lv, h) THEN Append(batch, h) ELSE batch

\* Lines 510-513: the batch after hash h has been examined.
Enqueue(batch, lv, h) == IF ~IsLive(lv, h) THEN Append(batch, h) ELSE batch

\* A wrapper that yields the Error and lets the task go on.
SweepFailGoesOn ==
    /\ sweepPc' = sweepPc
    /\ sweepEvents' = Append(sweepEvents, SweepEvent("Error", 0))

\* gc_sweep's wrapper: the task returned Err, the stream yields Error and ends.
SweepFail ==
    /\ sweepPc' = "failed"
    /\ sweepEvents' = Append(sweepEvents, SweepEvent("Error", 0))

\* store.delete(batch).await: the call is made; it deletes the hashes, or fails.
DeleteCall(batch, ok) ==
    /\ deleteCalls' = Append(deleteCalls, batch)
    /\ IF ok
       THEN /\ complete' = Delete(complete, batch)
            /\ partial' = Delete(partial, batch)
       ELSE UNCHANGED <<complete, partial>>

\* A sweep whose first iterator yields the partial entries too.
SweepBeginOverlap ==
    /\ SweepIdle
    /\ sweeps < MaxCycles
    /\ sweeps' = sweeps + 1
    /\ sweepBatch' = <<>>
    /\ sweepCount' = 0
    /\ deleteCalls' = <<>>
    /\ \/ /\ sweepPc' = "failed"
          /\ sweepEvents' = <<SweepEvent("Error", 0)>>
          /\ sweepIter' = <<>>
       \/ /\ sweepPc' = "loop"
          /\ sweepEvents' = <<>>
          /\ sweepIter' = HashesInOrder(complete \cup partial) \o HashesInOrder(partial)
    /\ UNCHANGED <<storeVars, writerVars, cycle>>

\* The first poll of gc_sweep, line 505: blobs() chained with partial_blobs().
SweepBegin ==
    /\ SweepIdle
    /\ sweeps < MaxCycles
    /\ sweeps' = sweeps + 1
    /\ sweepBatch' = <<>>
    /\ sweepCount' = 0
    /\ deleteCalls' = <<>>
    /\ \/ /\ sweepPc' = "failed"
          /\ sweepEvents' = <<SweepEvent("Error", 0)>>
          /\ sweepIter' = <<>>
       \/ /\ sweepPc' = "loop"
          /\ sweepEvents' = <<>>
          /\ sweepIter' = HashesInOrder(complete) \o HashesInOrder(partial)
    /\ UNCHANGED <<storeVars, writerVars, cycle>>

SweepStart ==
    /\ SweepBegin
    /\ hist' = [hist EXCEPT !.storeBefore = Stored, !.swept = TRUE]
    /\ UNCHANGED markVars

\* A loop that deletes the batch it holds when the iterator yields an Err.
SweepExamineFlushOnErr ==
    /\ sweepPc = "loop"
    /\ sweepIter # <<>>
    /\ sweepIter' = Tail(sweepIter)
    /\ \E itemOk \in BOOLEAN, deleteOk \in BOOLEAN :
         IF ~itemOk
         THEN /\ deleteOk
              /\ SweepFail
              /\ IF sweepBatch # <<>>
                 THEN DeleteCall(sweepBatch, TRUE)
                 ELSE UNCHANGED <<deleteCalls, complete, partial>>
              /\ UNCHANGED <<sweepBatch, sweepCount>>
         ELSE LET h == Head(sweepIter)
                  batch == Enqueue(sweepBatch, live, h)
              IN  /\ sweepCount' = sweepCount + (Len(batch) - Len(sweepBatch))
                  /\ IF BatchFull(batch)
                     THEN /\ DeleteCall(batch, deleteOk)
                          /\ IF deleteOk
                             THEN /\ sweepBatch' = <<>>
                                  /\ UNCHANGED <<sweepPc, sweepEvents>>
                             ELSE /\ sweepBatch' = batch
                                  /\ SweepFail
                     ELSE /\ deleteOk
                          /\ sweepBatch' = batch
                          /\ UNCHANGED <<sweepPc, sweepEvents, deleteCalls,
                                         complete, partial>>
    /\ UNCHANGED <<tags, tempTags, live, inserts>>
    /\ UNCHANGED <<markVars, writerVars, countVars, hist>>

\* A loop that counts every hash it examines.
SweepExamineCountsAll ==
    /\ sweepPc = "loop"
    /\ sweepIter # <<>>
    /\ sweepIter' = Tail(sweepIter)
    /\ \E itemOk \in BOOLEAN, deleteOk \in BOOLEAN :
         IF ~itemOk
         THEN /\ deleteOk
              /\ SweepFail
              /\ UNCHANGED <<sweepBatch, sweepCount, deleteCalls, complete, partial>>
         ELSE LET h == Head(sweepIter)
                  batch == Enqueue(sweepBatch, live, h)
              IN  /\ sweepCount' = sweepCount + 1
                  /\ IF BatchFull(batch)
                     THEN /\ DeleteCall(batch, deleteOk)
                          /\ IF deleteOk
                             THEN /\ sweepBatch' = <<>>
                                  /\ UNCHANGED <<sweepPc, sweepEvents>>
                             ELSE /\ sweepBatch' = batch
                                  /\ SweepFail
                     ELSE /\ deleteOk
                          /\ sweepBatch' = batch
                          /\ UNCHANGED <<sweepPc, sweepEvents, deleteCalls,
                                         complete, partial>>
    /\ UNCHANGED <<tags, tempTags, live, inserts>>
    /\ UNCHANGED <<markVars, writerVars, countVars, hist>>

\* One turn of the loop of lines 508-518: the iterator yields an Err, or a hash
\* that is examined; a full batch is deleted.
SweepExamine ==
    /\ sweepPc = "loop"
    /\ sweepIter # <<>>
    /\ sweepIter' = Tail(sweepIter)
    /\ \E itemOk \in BOOLEAN, deleteOk \in BOOLEAN :
         IF ~itemOk
         THEN /\ deleteOk
              /\ SweepFail
              /\ UNCHANGED <<sweepBatch, sweepCount, deleteCalls, complete, partial>>
         ELSE LET h == Head(sweepIter)
                  batch == Enqueue(sweepBatch, live, h)
              IN  /\ sweepCount' = sweepCount + (Len(batch) - Len(sweepBatch))
                  /\ IF BatchFull(batch)
                     THEN /\ DeleteCall(batch, deleteOk)
                          /\ IF deleteOk
                             THEN /\ sweepBatch' = <<>>
                                  /\ UNCHANGED <<sweepPc, sweepEvents>>
                             ELSE /\ sweepBatch' = batch
                                  /\ SweepFail
                     ELSE /\ deleteOk
                          /\ sweepBatch' = batch
                          /\ UNCHANGED <<sweepPc, sweepEvents, deleteCalls,
                                         complete, partial>>
    /\ UNCHANGED <<tags, tempTags, live, inserts>>
    /\ UNCHANGED <<markVars, writerVars, countVars, hist>>

\* Lines 519-526: the last batch is deleted and the summary is yielded.
SweepFinish ==
    /\ sweepPc = "loop"
    /\ sweepIter = <<>>
    /\ \E deleteOk \in BOOLEAN :
         IF sweepBatch # <<>>
         THEN /\ DeleteCall(sweepBatch, deleteOk)
              /\ IF deleteOk
                 THEN /\ sweepPc' = "y522"
                      /\ sweepEvents' =
                           Append(sweepEvents, SweepEvent("CustomDebug", sweepCount))
                 ELSE SweepFail
         ELSE /\ deleteOk
              /\ sweepPc' = "y522"
              /\ sweepEvents' =
                   Append(sweepEvents, SweepEvent("CustomDebug", sweepCount))
              /\ UNCHANGED <<deleteCalls, complete, partial>>
    /\ UNCHANGED <<sweepIter, sweepBatch, sweepCount>>
    /\ UNCHANGED <<tags, tempTags, live, inserts>>
    /\ UNCHANGED <<markVars, writerVars, countVars, hist>>

\* Line 527: the task returns Ok and the stream ends.
SweepEnd ==
    /\ sweepPc = "y522"
    /\ sweepPc' = "done"
    /\ UNCHANGED <<sweepIter, sweepBatch, sweepCount, sweepEvents, deleteCalls>>
    /\ UNCHANGED <<storeVars, markVars, writerVars, countVars, hist>>

\* ------------------------------------------------------- the batch writers
\* The items a batch is made of (BaoContentItem): a Parent is saved at its node,
\* a Leaf is written at its byte offset.
Nodes == {0}
Pairs == {<<1, 2>>, <<3, 4>>}
DataEnd == 2
Unwritten == -1
NoPair == <<>>
\* No write_batch call has declared a size yet.
NoSize == -1
\* The sizes a write_batch call declares: the size of the data, or one more.
Sizes == {DataEnd + 1, DataEnd + 2}

Parent(node, pair) == [kind |-> "Parent", at |-> node, val |-> pair]
Leaf(offset, data) == [kind |-> "Leaf", at |-> offset, val |-> data]
Items ==
    {Parent(n, p) : n \in Nodes, p \in Pairs} \cup {Leaf(0, <<1>>), Leaf(1, <<2, 2>>)}
Batches == UNION {[1..n -> Items] : n \in 0..MaxBatchLen}
\* The batches of one item at most.
ShortBatches == UNION {[1..n -> Items] : n \in 0..1}

\* AsyncSliceWriter::write_bytes_at(offset, data)
WriteBytesAt(data, offset, bytes) ==
    [o \in DOMAIN data |->
        IF o >= offset /\ o < offset + Len(bytes) THEN bytes[o - offset + 1]
        ELSE data[o]]

\* A save that leaves a node that has a pair as it is.
SaveKeepsFirst(outboard, node, pair) ==
    IF outboard[node] = NoPair THEN [outboard EXCEPT ![node] = pair] ELSE outboard

\* OutboardMut::save(node, pair)
Save(outboard, node, pair) == [outboard EXCEPT ![node] = pair]

\* CombinedBatchWriter::write_batch, lines 229-241: the items in order; the
\* operation of item failAt fails (0: none does) and `?` returns its error.
CombinedWrite(data, outboard, batch, failAt) ==
    LET F[i \in 0..Len(batch)] ==
            IF i = 0 THEN [data |-> data, outboard |-> outboard, ok |-> TRUE]
            ELSE LET prev == F[i - 1]
                     item == batch[i]
                 IN  IF ~prev.ok THEN prev
                     ELSE IF i = failAt THEN [prev EXCEPT !.ok = FALSE]
                     ELSE IF item.kind = "Parent"
                     THEN [prev EXCEPT !.outboard = Save(prev.outboard, item.at, item.val)]
                     ELSE [prev EXCEPT !.data = WriteBytesAt(prev.data, item.at, item.val)]
    IN  F[Len(batch)]

\* The last leaf of the batch in place of the first.
LastLeaf(batch) ==
    LET leaves == {i \in 1..Len(batch) : batch[i].kind = "Leaf"}
    IN  IF leaves = {} THEN <<>>
        ELSE LET i == CHOOSE j \in leaves : \A k \in leaves : j >= k
             IN  <<[offset |-> batch[i].at, len |-> Len(batch[i].val)]>>

\* Lines 189-198: the offset and length of the first leaf of the batch, if any.
FirstLeaf(batch) ==
    LET leaves == {i \in 1..Len(batch) : batch[i].kind = "Leaf"}
    IN  IF leaves = {} THEN <<>>
        ELSE LET i == CHOOSE j \in leaves : \A k \in leaves : j <= k
             IN  <<[offset |-> batch[i].at, len |-> Len(batch[i].val)]>>

Call(via, size, batch, innerOk, result) ==
    [via |-> via, size |-> size, batch |-> batch, innerOk |-> innerOk,
     result |-> result, prevSize |-> wCall.size,
     prevData |-> wData, prevOutboard |-> wOutboard,
     dataSync |-> "none", outboardSync |-> "none"]

\* A write_batch(size, batch) call on a CombinedBatchWriter, for the batches and
\* the sizes a caller draws from.
WriteCombined(BatchSet, SizeSet) ==
    /\ \E size \in SizeSet, batch \in BatchSet, failAt \in 0..MaxBatchLen :
         /\ failAt <= Len(batch)
         /\ \E r \in {CombinedWrite(wData, wOutboard, batch, failAt)} :
                /\ wData' = r.data
                /\ wOutboard' = r.outboard
                /\ wCall' = Call("combined", size, batch, r.ok,
                                 IF r.ok THEN "Ok" ELSE "Err")
    /\ wHook' = <<>>
    /\ UNCHANGED <<storeVars, markVars, sweepVars, countVars, hist>>

\* The caller that declares the size of the data with every batch.
CombinedWriteBatch == WriteCombined(Batches, {DataEnd + 1})

\* A decorator that calls on_write whether the inner write failed or not.
WriteProgressHookAlways(BatchSet, SizeSet) ==
    /\ \E size \in SizeSet, batch \in BatchSet, failAt \in 0..MaxBatchLen,
          hookOk \in BOOLEAN :
         /\ failAt <= Len(batch)
         /\ \E chunk \in {FirstLeaf(batch)},
               r \in {CombinedWrite(wData, wOutboard, batch, failAt)} :
            LET called == chunk # <<>>
            IN  /\ wData' = r.data
                /\ wOutboard' = r.outboard
                /\ ~called => hookOk
                /\ wHook' =
                     IF called
                     THEN <<[offset |-> chunk[1].offset, len |-> chunk[1].len,
                             ok |-> hookOk]>>
                     ELSE <<>>
                /\ wCall' = Call("progress", size, batch, r.ok,
                                 IF r.ok /\ hookOk THEN "Ok" ELSE "Err")
    /\ UNCHANGED <<storeVars, markVars, sweepVars, countVars, hist>>

\* A decorator that calls on_write before the inner write and skips the write
\* when the hook fails.
WriteProgressHookFirst(BatchSet, SizeSet) ==
    /\ \E size \in SizeSet, batch \in BatchSet, failAt \in 0..MaxBatchLen,
          hookOk \in BOOLEAN :
         /\ failAt <= Len(batch)
         /\ \E chunk \in {FirstLeaf(batch)} :
            LET called == chunk # <<>>
                r == IF called /\ ~hookOk
                     THEN [data |-> wData, outboard |-> wOutboard, ok |-> TRUE]
                     ELSE CombinedWrite(wData, wOutboard, batch, failAt)
            IN  /\ wData' = r.data
                /\ wOutboard' = r.outboard
                /\ ~called => hookOk
                /\ wHook' =
                     IF called
                     THEN <<[offset |-> chunk[1].offset, len |-> chunk[1].len,
                             ok |-> hookOk]>>
                     ELSE <<>>
                /\ wCall' = Call("progress", size, batch, r.ok,
                                 IF r.ok /\ hookOk THEN "Ok" ELSE "Err")
    /\ UNCHANGED <<storeVars, markVars, sweepVars, countVars, hist>>

\* FallibleProgressBatchWriter::write_batch, lines 187-205, around a
\* CombinedBatchWriter: the inner write, then on_write for the first leaf.
WriteProgress(BatchSet, SizeSet) ==
    /\ \E size \in SizeSet, batch \in BatchSet, failAt \in 0..MaxBatchLen,
          hookOk \in BOOLEAN :
         /\ failAt <= Len(batch)
         /\ \E chunk \in {FirstLeaf(batch)},
               r \in {CombinedWrite(wData, wOutboard, batch, failAt)} :
            LET called == r.ok /\ chunk # <<>>
            IN  /\ wData' = r.data
                /\ wOutboard' = r.outboard
                /\ ~called => hookOk
                /\ wHook' =
                     IF called
                     THEN <<[offset |-> chunk[1].offset, len |-> chunk[1].len,
                             ok |-> hookOk]>>
                     ELSE <<>>
                /\ wCall' = Call("progress", size, batch, r.ok,
                                 IF r.ok /\ hookOk THEN "Ok" ELSE "Err")
    /\ UNCHANGED <<storeVars, markVars, sweepVars, countVars, hist>>

ProgressWriteBatch == WriteProgress(Batches, {DataEnd + 1})

\* What try_join(self.data.sync(), self.outboard.sync()) can come to: each sync
\* returns Ok or Err, or is dropped unfinished because the other returned Err.
SyncOutcomes ==
    {o \in [data : {"Ok", "Err", "Dropped"}, outboard : {"Ok", "Err", "Dropped"}] :
        /\ o.data = "Dropped" => o.outboard = "Err"
        /\ o.outboard = "Dropped" => o.data = "Err"}

\* CombinedBatchWriter::sync, lines 243-246.
CombinedSync ==
    /\ \E o \in SyncOutcomes :
         wCall' = [wCall EXCEPT
                     !.via = "sync", !.batch = <<>>, !.innerOk = TRUE,
                     !.result = IF o.data = "Ok" /\ o.outboard = "Ok" THEN "Ok" ELSE "Err",
                     !.prevData = wData, !.prevOutboard = wOutboard,
                     !.dataSync = o.data, !.outboardSync = o.outboard]
    /\ wHook' = <<>>
    /\ UNCHANGED <<wData, wOutboard>>
    /\ UNCHANGED <<storeVars, markVars, sweepVars, countVars, hist>>

\* ------------------------------------------------------------- other tasks
\* Store::temp_tag(value): a handle is made for the target.
TempTagAcquire ==
    /\ \E t \in TempTagIds, haf \in HashAndFormat :
         /\ tempTags[t] = NotMade
         /\ tempTags' = [tempTags EXCEPT ![t] = haf]
         /\ hist' = [hist EXCEPT
                       !.acquiredMid = IF MarkSuspended THEN @ \cup {haf} ELSE @,
                       !.acquiredLate = IF AfterTempTags THEN @ \cup {haf} ELSE @,
                       !.quiet = FALSE]
    /\ UNCHANGED <<complete, partial, tags, live, inserts>>
    /\ UNCHANGED <<markVars, sweepVars, writerVars, countVars>>

\* A TempTag handle is dropped: its target is pinned by it no longer.
TempTagDrop ==
    /\ \E t \in TempTagIds :
         /\ tempTags[t] \in HashAndFormat
         /\ tempTags' = [tempTags EXCEPT ![t] = Dropped]
         /\ hist' = [hist EXCEPT !.heldThrough = @ \ {tempTags[t]}, !.quiet = FALSE]
    /\ UNCHANGED <<complete, partial, tags, live, inserts>>
    /\ UNCHANGED <<markVars, sweepVars, writerVars, countVars>>

\* PartialMap::entry_status: the section of the store the hash is in.
EntryStatus(h) ==
    IF h \in complete THEN "Complete"
    ELSE IF h \in partial THEN "Partial"
    ELSE "NotFound"

\* PartialMap::get_or_create_partial(hash, size): the partial entry of the hash,
\* made if the store has no entry for it.
GetOrCreatePartial ==
    /\ \E h \in Hashes :
         /\ EntryStatus(h) # "Complete"
         /\ partial' = partial \cup {h}
    /\ UNCHANGED <<complete, tags, tempTags, live, inserts>>
    /\ UNCHANGED <<markVars, sweepVars, writerVars, countVars, hist>>

\* No insert_complete call has been made.
NoInsert == [hash |-> NoHash, at |-> "idle"]

\* PartialMap::insert_complete(entry) is called with a partial entry and awaits
\* its io. One call is in flight at a time.
InsertCompleteBegin ==
    /\ inserts.at # "running"
    /\ \E h \in Hashes :
         /\ EntryStatus(h) = "Partial"
         /\ inserts' = [hash |-> h, at |-> "running"]
    /\ UNCHANGED <<complete, partial, tags, tempTags, live>>
    /\ UNCHANGED <<markVars, sweepVars, writerVars, countVars, hist>>

\* A promotion that copies the entry to the complete ones and leaves the
\* partial one behind.
InsertCompleteEndCopy ==
    /\ inserts.at = "running"
    /\ \E ok \in BOOLEAN :
         IF ok /\ EntryStatus(inserts.hash) = "Partial"
         THEN /\ partial' = partial
              /\ complete' = complete \cup {inserts.hash}
              /\ inserts' = [inserts EXCEPT !.at = "Ok"]
         ELSE /\ inserts' = [inserts EXCEPT !.at = "Err"]
              /\ UNCHANGED <<complete, partial>>
    /\ UNCHANGED <<tags, tempTags, live>>
    /\ UNCHANGED <<markVars, sweepVars, writerVars, countVars, hist>>

\* insert_complete returns: Ok, and the entry has gone from the partial
\* entries to the complete ones in this step; or Err (the io failed, or the
\* partial entry has been deleted), and the entries are as they were.
InsertCompleteEnd ==
    /\ inserts.at = "running"
    /\ \E ok \in BOOLEAN :
         IF ok /\ EntryStatus(inserts.hash) = "Partial"
         THEN /\ partial' = partial \ {inserts.hash}
              /\ complete' = complete \cup {inserts.hash}
              /\ inserts' = [inserts EXCEPT !.at = "Ok"]
         ELSE /\ inserts' = [inserts EXCEPT !.at = "Err"]
              /\ UNCHANGED <<complete, partial>>
    /\ UNCHANGED <<tags, tempTags, live>>
    /\ UNCHANGED <<markVars, sweepVars, writerVars, countVars, hist>>

\* Store::import_bytes(bytes, format): the blob is stored complete, and the
\* TempTag that is returned pins it.
ImportBytes ==
    /\ \E h \in Hashes, t \in TempTagIds :
         /\ tempTags[t] \in {NotMade, Dropped}
         /\ tempTags' = [tempTags EXCEPT ![t] = Haf(h, Raw)]
         /\ complete' = complete \cup {h}
         /\ partial' = partial \ {h}
    /\ UNCHANGED <<tags, live, inserts>>
    /\ UNCHANGED <<markVars, sweepVars, writerVars, countVars, hist>>

\* Store::clear_live
ClearLive ==
    /\ live # {}
    /\ live' = {}
    /\ hist' = [hist EXCEPT !.quiet = FALSE]
    /\ UNCHANGED <<complete, partial, tags, tempTags, inserts>>
    /\ UNCHANGED <<markVars, sweepVars, writerVars, countVars>>

\* ---------------------------------------------------------- specification
InitTasks ==
    /\ markPc = "idle"
    /\ markExtra = <<>>
    /\ markRoots = {}
    /\ markIter = <<>>
    /\ markLive = {}
    /\ markStream = <<>>
    /\ markEvents = <<>>
    /\ sweepPc = "idle"
    /\ sweepIter = <<>>
    /\ sweepBatch = <<>>
    /\ sweepCount = 0
    /\ sweepEvents = <<>>
    /\ deleteCalls = <<>>
    /\ cycle = 0
    /\ sweeps = 0
    /\ hist = [tempAtStart |-> {}, heldThrough |-> {}, acquiredMid |-> {},
               acquiredLate |-> {}, lateBefore |-> {}, tempSeen |-> {},
               storeBefore |-> {}, quiet |-> FALSE, swept |-> FALSE, clean |-> FALSE]

InitWriter ==
    /\ wData = [o \in 0..DataEnd |-> Unwritten]
    /\ wOutboard = [n \in Nodes |-> NoPair]
    /\ wCall = [via |-> "none", size |-> NoSize, batch |-> <<>>, innerOk |-> TRUE,
                result |-> "none", prevSize |-> NoSize,
                dataSync |-> "none", outboardSync |-> "none",
                prevData |-> [o \in 0..DataEnd |-> Unwritten],
                prevOutboard |-> [n \in Nodes |-> NoPair]]
    /\ wHook = <<>>

\* A store with every blob imported, but that blob 1 may be partial or
\* absent; the tag set or not; no temp tag, an empty live set.
Init ==
    /\ \E status \in {"Complete", "Partial", "NotFound"} :
         /\ complete = IF status = "Complete" THEN Hashes ELSE Hashes \ {1}
         /\ partial = IF status = "Partial" THEN {1} ELSE {}
    /\ tags \in [TagNames -> HashAndFormat \cup {NoTag}]
    /\ tempTags = [t \in TempTagIds |-> NotMade]
    /\ inserts = NoInsert
    /\ live = {}
    /\ InitTasks
    /\ InitWriter

\* The caller that runs a mark to its end and then a sweep, cycle after cycle.
\* A stream that has ended is dropped before the next one is made: what it
\* held and what it yielded is gone.
NoWarning(events) == \A i \in 1..Len(events) : events[i].kind = "CustomDebug"

CycleMarkStart ==
    /\ SweepIdle
    /\ sweeps = cycle
    /\ MarkBegin
    /\ sweepPc' = "idle"
    /\ sweepIter' = <<>>
    /\ sweepBatch' = <<>>
    /\ sweepCount' = 0
    /\ sweepEvents' = <<>>
    /\ deleteCalls' = <<>>

CycleSweepStart ==
    /\ MarkIdle
    /\ sweeps < cycle
    /\ SweepBegin
    /\ hist' = [hist EXCEPT !.swept = TRUE,
                            !.quiet = hist.quiet /\ markPc = "done",
                            !.clean = markPc = "done" /\ NoWarning(markEvents)]
    /\ markPc' = markPc
    /\ markExtra' = <<>>
    /\ markRoots' = {}
    /\ markIter' = <<>>
    /\ markLive' = {}
    /\ markStream' = <<>>
    /\ markEvents' = <<>>

Next ==
    \/ CycleMarkStart
    \/ MarkTags
    \/ MarkAddRoot
    \/ MarkTempTags
    \/ MarkAddTemp
    \/ MarkExtraRoots
    \/ MarkAddExtra
    \/ MarkChildren
    \/ MarkAfterWarn
    \/ MarkPublish
    \/ MarkDrop
    \/ CycleSweepStart
    \/ SweepExamine
    \/ SweepFinish
    \/ SweepEnd
    \/ TempTagAcquire
    \/ TempTagDrop

Spec == Init /\ [][Next]_vars

NextMark ==
    \/ MarkStart
    \/ MarkTags
    \/ MarkAddRoot
    \/ MarkTempTags
    \/ MarkAddTemp
    \/ MarkExtraRoots
    \/ MarkAddExtra
    \/ MarkChildren
    \/ MarkAfterWarn
    \/ MarkPublish
    \/ MarkDrop
    \/ TempTagAcquire
    \/ TempTagDrop
    \/ ClearLive

SpecMark == Init /\ [][NextMark]_vars

\* A sweep of a store of up to MaxBlobs blobs, every fourth of them partial;
\* no hash is live, or every third, or all.
InitSweep ==
    /\ \E n \in 0..MaxBlobs, stride \in {0, 1, 3} :
         /\ complete = {h \in 0..(n - 1) : h % 4 # 3}
         /\ partial = {h \in 0..(n - 1) : h % 4 = 3}
         /\ live = IF stride = 0 THEN {} ELSE {h \in 0..(n - 1) : h % stride = 0}
    /\ tags = [n \in TagNames |-> NoTag]
    /\ tempTags = [t \in TempTagIds |-> NotMade]
    /\ inserts = NoInsert
    /\ InitTasks
    /\ InitWriter

NextSweep ==
    \/ SweepStart
    \/ SweepExamine
    \/ SweepFinish
    \/ SweepEnd

SpecSweep == InitSweep /\ [][NextSweep]_vars

\* The entries of a store that starts empty, with hash 0 live: partial entries
\* are made and promoted, blobs are imported, and gc_sweep runs beside them.
InitEntry ==
    /\ complete = {}
    /\ partial = {}
    /\ live = {0}
    /\ tags = [n \in TagNames |-> NoTag]
    /\ tempTags = [t \in TempTagIds |-> NotMade]
    /\ inserts = NoInsert
    /\ InitTasks
    /\ InitWriter

NextEntry ==
    \/ GetOrCreatePartial
    \/ InsertCompleteBegin
    \/ InsertCompleteEnd
    \/ ImportBytes
    \/ TempTagDrop
    \/ SweepStart
    \/ SweepExamine
    \/ SweepFinish
    \/ SweepEnd

SpecEntry == InitEntry /\ [][NextEntry]_vars

\* The batch writers alone.
InitBatch ==
    /\ complete = {}
    /\ partial = {}
    /\ live = {}
    /\ tags = [n \in TagNames |-> NoTag]
    /\ tempTags = [t \in TempTagIds |-> NotMade]
    /\ inserts = NoInsert
    /\ InitTasks
    /\ InitWriter

NextWriter ==
    \/ CombinedWriteBatch
    \/ ProgressWriteBatch
    \/ CombinedSync

SpecWriter == InitBatch /\ [][NextWriter]_vars

\* The batch writers under a caller that declares a size of its choice with
\* every batch, of one item at most.
CombinedWriteSized == WriteCombined(ShortBatches, Sizes)
ProgressWriteSized == WriteProgress(ShortBatches, Sizes)

NextSize ==
    \/ CombinedWriteSized
    \/ ProgressWriteSized

SpecSize == InitBatch /\ [][NextSize]_vars

\* Store::add_live called by another task (the last step of a gc_mark that
\* runs beside the sweep, say) while gc_sweep runs: the store is Send + Sync
\* and the tasks may run in parallel.
AddLiveCall ==
    /\ \E h \in Hashes \ live : live' = AddLive(live, {h})
    /\ UNCHANGED <<complete, partial, tags, tempTags, inserts>>
    /\ UNCHANGED <<markVars, sweepVars, writerVars, countVars, hist>>

\* A store of the blobs of Hashes, blob 1 complete, partial or absent, and
\* any live set.
InitLive ==
    /\ \E status \in {"Complete", "Partial", "NotFound"} :
         /\ complete = IF status = "Complete" THEN Hashes ELSE Hashes \ {1}
         /\ partial = IF status = "Partial" THEN {1} ELSE {}
    /\ live \in SUBSET Hashes
    /\ tags = [n \in TagNames |-> NoTag]
    /\ tempTags = [t \in TempTagIds |-> NotMade]
    /\ inserts = NoInsert
    /\ InitTasks
    /\ InitWriter

NextLive ==
    \/ SweepStart
    \/ SweepExamine
    \/ SweepFinish
    \/ SweepEnd
    \/ AddLiveCall

SpecLive == InitLive /\ [][NextLive]_vars

\* -------------------------------------------------------------- properties
\* The hashes a root pins: its own and, for a HashSeq root whose blob is
\* complete, the hashes the blob lists.
Children(root) ==
    IF ~IsRaw(root.format) /\ root.hash \in complete
    THEN Range(HashSeqOf(root.hash))
    ELSE {}
Reach(roots) == UNION {{r.hash} \cup Children(r) : r \in roots}

\* The hashes the delete calls of this sweep were given.
Deleted == UNION {Range(deleteCalls[i]) : i \in 1..Len(deleteCalls)}

\* The mark has yielded a warning for hash h.
Warned(h) ==
    \E i \in 1..Len(markEvents) :
        markEvents[i].kind = "CustomWarning" /\ markEvents[i].hash = h

CeilDiv(n, d) == (n + d - 1) \div d

\* C1: GC safety. After a mark polled to its end without a warning and then a
\* sweep polled to its end, with nothing else done to the store in between,
\* every hash that a tag or a temp tag held all along reaches (the target and,
\* for a HashSeq target, the hashes its blob lists) and that was in the store
\* before the cycle is still in the store.
C1_GcSafety ==
    (sweepPc = "done" /\ hist.quiet /\ hist.clean) =>
        \A h \in Reach(TagTargets \cup hist.heldThrough) \cap hist.storeBefore :
            h \in Stored

\* C2: hash sequence pinning. When gc_mark completes, for every root
\* (h, HashSeq) whose entry is complete and whose data was decoded (no warning
\* for h), every hash that h lists is in the live set.
C2_HashSeqPinning ==
    [][MarkPublish =>
         \A r \in markRoots :
             (~IsRaw(r.format) /\ r.hash \in complete /\ ~Warned(r.hash)) =>
                 Range(HashSeqOf(r.hash)) \subseteq live']_vars

\* C3: temp tag lifetime. A temp tag held from the start of a gc_mark run until
\* the run completes has its hash in the live set when the run completes,
\* whatever the tags name.
C3_TempTagLifetime ==
    [][MarkPublish => \A r \in hist.heldThrough : r.hash \in live']_vars

C3_Witness ==
    /\ markPc = "done"
    /\ \E r \in hist.heldThrough :
         /\ r.hash \in live
         /\ r.hash \notin Reach(TagTargets \cup Range(markExtra))

C5_SweepDeletesNonLive ==
    sweepPc \in {"y522", "done"} =>
        /\ Deleted = hist.storeBefore \ live
        /\ Stored = hist.storeBefore \cap live
        /\ sweepCount = Cardinality(hist.storeBefore \ live)
        /\ sweepEvents = <<SweepEvent("CustomDebug", sweepCount)>>

C5_Witness ==
    /\ sweepPc = "done"
    /\ markPc = "done"
    /\ tags["keep"] = Haf(0, Raw)
    /\ tempTags["a"] = Haf(1, Raw)
    /\ hist.storeBefore = {0, 1, 2}
    /\ Stored = {0, 1}
    /\ deleteCalls = <<(<<2>>)>>

\* C6: every delete call of a sweep has from 1 to 100 hashes; a sweep that ends
\* without error has deleted the last, shorter batch too, in ceil(N/100) calls
\* for the N hashes that are not live.
C6_DeleteBatches ==
    /\ \A i \in 1..Len(deleteCalls) :
         Len(deleteCalls[i]) >= 1 /\ Len(deleteCalls[i]) <= BatchLimit
    /\ sweepPc \in {"y522", "done"} =>
         /\ Len(deleteCalls) = CeilDiv(Cardinality(hist.storeBefore \ live), BatchLimit)
         /\ Deleted = hist.storeBefore \ live
         /\ \A i \in 1..(Len(deleteCalls) - 1) : Len(deleteCalls[i]) = BatchLimit

C6_Witness ==
    /\ sweepPc = "done"
    /\ Cardinality(hist.storeBefore \ live) = BatchLimit + 1
    /\ Len(deleteCalls) = 2
    /\ Len(deleteCalls[1]) = BatchLimit
    /\ Len(deleteCalls[2]) = 1

\* C7: when gc_mark completes, every root that is not raw and whose entry is
\* missing or partial has had a CustomWarning event.
C7_WarningsNonFatal ==
    markPc = "done" =>
        \A r \in markRoots :
            (~IsRaw(r.format) /\ r.hash \notin complete) => Warned(r.hash)

\* C8: a step of gc_mark leaves the store's live set as it is, but for the one
\* step after the last yield, which unites the computed set into it; at that
\* yield every root has been passed, so the live set is never the union with a
\* part of the computed set only.
C8_AtomicPublish ==
    /\ [](markPc = "y499" =>
            /\ markIter = <<>>
            /\ markStream = <<>>
            /\ {r.hash : r \in markRoots} \subseteq markLive)
    /\ [][markVars' # markVars =>
            IF markPc = "y499" /\ markPc' = "done"
            THEN live' = live \cup markLive
            ELSE live' = live]_vars

C8_Witness ==
    /\ cycle = 2
    /\ markPc = "done"
    /\ markLive # {}
    /\ markLive \subseteq live
    /\ live # markLive

\* C9: batch rejection. When write_batch of a CombinedBatchWriter returns an
\* error, the data and the outboard are as they were before the call.
C9_BatchRejection ==
    (wCall.via = "combined" /\ wCall.result = "Err") =>
        /\ wData = wCall.prevData
        /\ wOutboard = wCall.prevOutboard

\* C10, as stated: every batch written through a FallibleProgressBatchWriter
\* has exactly one on_write call.
C10_OnePerBatch == wCall.via = "progress" => Len(wHook) = 1

\* C10, amended: a batch written through a FallibleProgressBatchWriter has at
\* most one on_write call; it has one exactly when the inner write succeeded and
\* the batch holds a leaf, and the call carries the offset and the length of the
\* first leaf of the batch.
C10_ProgressEvents ==
    wCall.via = "progress" =>
        LET batch == wCall.batch
            leaves == {i \in 1..Len(batch) : batch[i].kind = "Leaf"}
        IN  /\ Len(wHook) <= 1
            /\ Len(wHook) = 1 <=> (wCall.innerOk /\ leaves # {})
            /\ Len(wHook) = 1 =>
                 \E i \in leaves :
                     /\ \A j \in leaves : i <= j
                     /\ wHook[1].offset = batch[i].at
                     /\ wHook[1].len = Len(batch[i].val)

C10_Witness ==
    /\ wCall.via = "progress"
    /\ wCall.batch = <<Leaf(1, <<2, 2>>), Leaf(0, <<1>>)>>
    /\ wHook = <<[offset |-> 1, len |-> 2, ok |-> TRUE]>>

\* The on_write call of the last write_batch returned an error.
HookFailed == wHook # <<>> /\ ~wHook[1].ok

\* C11, as stated: the batch for which the progress hook returned an error
\* has not changed the data or the outboard of the inner writer.
C11_HookFailureWritesNothing ==
    (wCall.via = "progress" /\ HookFailed) =>
        /\ wData = wCall.prevData
        /\ wOutboard = wCall.prevOutboard

\* C11, amended: when the progress hook returns an error, write_batch returns
\* an error, and the inner writer has been given the whole batch before the hook
\* was called; the writer keeps nothing of the failure: the next write_batch
\* whose operations succeed writes its whole batch too.
C11_HookFailure ==
    /\ []((wCall.via = "progress" /\ HookFailed) =>
            LET w == CombinedWrite(wCall.prevData, wCall.prevOutboard, wCall.batch, 0)
            IN  /\ wCall.result = "Err"
                /\ wCall.innerOk
                /\ wData = w.data
                /\ wOutboard = w.outboard)
    /\ [][(HookFailed /\ wCall'.innerOk) =>
            LET w == CombinedWrite(wData, wOutboard, wCall'.batch, 0)
            IN  /\ wData' = w.data
                /\ wOutboard' = w.outboard]_vars

C11_Witness ==
    /\ wCall.via = "progress"
    /\ HookFailed
    /\ wCall.batch = <<Parent(0, <<1, 2>>), Leaf(0, <<1>>)>>
    /\ wCall.prevOutboard[0] = NoPair
    /\ wOutboard[0] = <<1, 2>>
    /\ wData[0] = 1

\* C12: a write_batch call on a CombinedBatchWriter that declares another size
\* than the call before it returns an error and writes nothing.
C12_SizeChangeRejected ==
    (wCall.via = "combined" /\ wCall.prevSize # NoSize /\ wCall.size # wCall.prevSize) =>
        /\ wCall.result = "Err"
        /\ wData = wCall.prevData
        /\ wOutboard = wCall.prevOutboard

\* No item of the sequence comes twice.
NoRepeat(seq) == \A i, j \in 1..Len(seq) : i # j => seq[i] # seq[j]

DeleteRefused(i) == Range(deleteCalls[i]) \subseteq Stored

\* C15: a delete call of gc_sweep that fails is the last one of the sweep: the
\* stream has yielded an Error and nothing else, no summary, and the task takes
\* no further step: no hash is examined and no delete call is made.
C15_DeleteFailureAborts ==
    \A i \in 1..Len(deleteCalls) :
        DeleteRefused(i) =>
            /\ i = Len(deleteCalls)
            /\ sweepPc = "failed"
            /\ sweepEvents = <<SweepEvent("Error", 0)>>
            /\ ~ENABLED SweepExamine
            /\ ~ENABLED SweepFinish
            /\ ~ENABLED SweepEnd

C15_Witness ==
    /\ sweepPc = "failed"
    /\ Len(deleteCalls) = 2
    /\ ~DeleteRefused(1)
    /\ DeleteRefused(2)
    /\ Len(deleteCalls[2]) = BatchLimit
    /\ sweepIter # <<>>

\* The mark has yielded the event of this kind and line for hash h.
Yielded(kind, line, h) == MarkEvent(kind, line, h) \in Range(markEvents)

\* C16: when gc_mark completes, every root that is not raw and whose entry is
\* partial has its hash in the computed live set, has had the warning of a
\* partial entry, and has not had its blob parsed.
C16_PartialNotTraversed ==
    markPc = "done" =>
        \A r \in markRoots :
            (~IsRaw(r.format) /\ r.hash \in partial) =>
                /\ r.hash \in markLive
                /\ Yielded("CustomWarning", 473, r.hash)
                /\ ~Yielded("CustomDebug", 484, r.hash)

ErrorEvents == {i \in 1..Len(markEvents) : markEvents[i].kind = "Error"}

\* C18: a gc_mark that has met a fatal error has yielded one Error, as its last
\* event, and has ended: it never reached the yield before add_live, no step
\* of it is left to take, and the step that fails leaves the store's live set
\* as it is. A mark that has met none has yielded no Error.
C18_FatalErrorEndsMark ==
    /\ [](markPc = "failed" =>
            /\ ErrorEvents = {Len(markEvents)}
            /\ ~Yielded("CustomDebug", 499, NoHash)
            /\ ~ENABLED MarkPublish
            /\ ~ENABLED MarkTags
            /\ ~ENABLED MarkAddRoot
            /\ ~ENABLED MarkTempTags
            /\ ~ENABLED MarkAddTemp
            /\ ~ENABLED MarkExtraRoots
            /\ ~ENABLED MarkAddExtra
            /\ ~ENABLED MarkChildren
            /\ ~ENABLED MarkAfterWarn)
    /\ [](markPc # "failed" => ErrorEvents = {})
    /\ [][(markPc # "failed" /\ markPc' = "failed") => live' = live]_vars

C18_Witness ==
    /\ markPc = "failed"
    /\ cycle = 2
    /\ live # {}
    /\ markLive # {}
    /\ ~(markLive \subseteq live)
    /\ Yielded("CustomDebug", 484, 0)

\* The items of the batch that are saved at node n, or written over offset o.
ParentsAt(batch, n) ==
    {i \in 1..Len(batch) : batch[i].kind = "Parent" /\ batch[i].at = n}
LeavesOver(batch, o) ==
    {i \in 1..Len(batch) :
        /\ batch[i].kind = "Leaf"
        /\ batch[i].at <= o
        /\ o < batch[i].at + Len(batch[i].val)}
Last(S) == CHOOSE i \in S : \A j \in S : j <= i

\* C19: after a write_batch of a CombinedBatchWriter that returned Ok, every
\* node holds the pair of the last Parent of the batch for it and every offset
\* the byte of the last Leaf of the batch over it, and the nodes and offsets
\* the batch does not name are as before. A sync changes neither; it returns Ok
\* when the sync of the data and the sync of the outboard both returned Ok, and
\* Err when either returned Err.
C19_CombinedWriter ==
    /\ (wCall.via = "combined" /\ wCall.result = "Ok") =>
         /\ \A n \in Nodes :
              wOutboard[n] =
                IF ParentsAt(wCall.batch, n) = {} THEN wCall.prevOutboard[n]
                ELSE wCall.batch[Last(ParentsAt(wCall.batch, n))].val
         /\ \A o \in 0..DataEnd :
              wData[o] =
                IF LeavesOver(wCall.batch, o) = {} THEN wCall.prevData[o]
                ELSE LET leaf == wCall.batch[Last(LeavesOver(wCall.batch, o))]
                     IN  leaf.val[o - leaf.at + 1]
    /\ wCall.via = "sync" =>
         /\ wData = wCall.prevData
         /\ wOutboard = wCall.prevOutboard
         /\ wCall.dataSync # "none"
         /\ wCall.outboardSync # "none"
         /\ wCall.result = "Ok" <=> (wCall.dataSync = "Ok" /\ wCall.outboardSync = "Ok")
         /\ ("Err" \in {wCall.dataSync, wCall.outboardSync}) => wCall.result = "Err"

C19_Witness ==
    /\ wCall.via = "combined"
    /\ wCall.result = "Ok"
    /\ wCall.batch = <<Parent(0, <<1, 2>>), Parent(0, <<3, 4>>)>>
    /\ wCall.prevOutboard[0] = <<1, 2>>
    /\ wOutboard[0] = <<3, 4>>
    /\ wCall.prevData[1] = 2
    /\ wData[1] = 2

\* The number of hashes the delete calls were given.
TotalLen(calls) ==
    LET F[i \in 0..Len(calls)] == IF i = 0 THEN 0 ELSE F[i - 1] + Len(calls[i])
    IN  F[Len(calls)]

\* C20: a gc_sweep yields nothing while its loop runs; one that ends without
\* error has yielded one event, a CustomDebug whose count is the number of
\* hashes passed to delete in this sweep, and makes no delete call after it.
C20_SweepSummary ==
    /\ [](sweepPc = "loop" => sweepEvents = <<>>)
    /\ [](sweepPc \in {"y522", "done"} =>
            sweepEvents = <<[kind |-> "CustomDebug", count |-> TotalLen(deleteCalls)]>>)
    /\ [][(sweepPc \in {"y522", "done"} /\ sweeps' = sweeps) =>
            deleteCalls' = deleteCalls /\ sweepEvents' = sweepEvents]_vars

C20_Witness ==
    /\ sweepPc = "done"
    /\ Len(deleteCalls) = 2
    /\ Cardinality(live \cap hist.storeBefore) > 0
    /\ sweepEvents = <<[kind |-> "CustomDebug", count |-> BatchLimit + 1]>>

\* C21: gc_mark takes no hash out of the live set: its last step leaves the
\* live set as it was before united with the set it computed, every other
\* step of the mark and of the sweep leaves it alone, and what is live is not
\* passed to delete.
C21_MarkOnlyAdds ==
    /\ [][IF markPc = "y499" /\ markPc' = "done"
          THEN live' = live \cup markLive
          ELSE live' = live]_vars
    /\ [](Deleted \cap live = {})

\* The second mark has ended; a hash that it has not computed, live since the
\* first mark and reached by no root now, is in the live set and in the store
\* after a sweep between that has deleted a blob.
C21_Witness ==
    /\ cycle = 2
    /\ sweeps = 1
    /\ markPc = "done"
    /\ Stored \notin {Hashes, Hashes \ {1}}
    /\ (live \ markLive) \cap Stored # {}
    /\ (live \ markLive) \cap Reach(TagTargets \cup TempHeld \cup Range(markExtra)) = {}

\* C22: whatever add_live calls run beside a gc_sweep, no hash of a batch is
\* in the live set when the batch is passed to delete.
C22_DeleteNonLive ==
    [][deleteCalls' # deleteCalls /\ deleteCalls' # <<>> =>
         Range(deleteCalls'[Len(deleteCalls')]) \cap live = {}]_vars

\* C23: when the iterator of gc_sweep yields an Err, that turn of the loop
\* makes no delete call and deletes nothing, so the batch that was held stays
\* in the store, and the stream yields one Error and nothing after it; the
\* delete calls made before held no live hash.
C23_IteratorErrorAborts ==
    /\ [][(/\ sweepPc = "loop" /\ sweepPc' = "failed"
           /\ sweepIter' # sweepIter /\ sweepBatch' = sweepBatch) =>
            /\ deleteCalls' = deleteCalls
            /\ complete' = complete /\ partial' = partial
            /\ Range(sweepBatch) \subseteq Stored'
            /\ sweepEvents' = <<SweepEvent("Error", 0)>>]_vars
    /\ [][(sweepPc = "failed" /\ sweeps' = sweeps) =>
            sweepEvents' = sweepEvents /\ deleteCalls' = deleteCalls]_vars
    /\ [](\A i \in 1..Len(deleteCalls) : Range(deleteCalls[i]) \cap live = {})

\* The iterator has failed after one batch was deleted, with hashes in the
\* next batch, which are in the store; some hashes were live.
C23_Witness ==
    /\ sweepPc = "failed"
    /\ Len(deleteCalls) = 1
    /\ Len(deleteCalls[1]) = BatchLimit
    /\ Range(deleteCalls[1]) \cap Stored = {}
    /\ sweepBatch # <<>>
    /\ Range(sweepBatch) \cap Range(deleteCalls[1]) = {}
    /\ Range(sweepBatch) \subseteq Stored
    /\ live \cap Stored # {}
    /\ sweepEvents = <<SweepEvent("Error", 0)>>

\* C24: an on_write call of FallibleProgressBatchWriter::write_batch comes
\* after the inner write_batch has returned Ok, with the whole batch written;
\* when the inner write fails there is no on_write call and the call returns
\* the error; for a batch without a leaf there is no on_write call and the
\* call returns what the inner write returned.
C24_HookAfterInnerOk ==
    wCall.via = "progress" =>
        LET batch == wCall.batch
            w == CombinedWrite(wCall.prevData, wCall.prevOutboard, batch, 0)
        IN  /\ wHook # <<>> =>
                 /\ wCall.innerOk
                 /\ wData = w.data
                 /\ wOutboard = w.outboard
            /\ ~wCall.innerOk => (wHook = <<>> /\ wCall.result = "Err")
            /\ (\A i \in 1..Len(batch) : batch[i].kind # "Leaf") =>
                 /\ wHook = <<>>
                 /\ wCall.result = (IF wCall.innerOk THEN "Ok" ELSE "Err")

\* The leaf of the batch was written and the save of the parent after it
\* failed: no on_write call was made.
C24_Witness ==
    /\ wCall.via = "progress"
    /\ wCall.batch = <<Leaf(0, <<1>>), Parent(0, <<1, 2>>)>>
    /\ ~wCall.innerOk
    /\ wCall.prevData[0] = Unwritten
    /\ wData[0] = 1
    /\ wHook = <<>>
    /\ wCall.result = "Err"

\* C25: when the stream of a parsed root fails, the children it has yielded
\* are in the computed set and those it still holds are not added by that
\* step, a CustomWarning for the root is yielded, and the roots that are left
\* are left to inspect; the mark goes on from there, the computed set never
\* loses a hash, and add_live is given all of it.
C25_StreamFailure ==
    /\ [][(markPc = "y484" /\ markPc' = "y490") =>
            LET k == Len(markStream) - Len(markStream')
                root == markEvents[Len(markEvents)].hash
            IN  /\ markStream' = SubSeq(markStream, k + 1, Len(markStream))
                /\ markLive' = markLive \cup Range(Prefix(markStream, k))
                /\ markEvents' = Append(markEvents, MarkEvent("CustomWarning", 490, root))
                /\ markIter' = markIter]_vars
    /\ [](markPc = "y490" => ENABLED MarkAfterWarn)
    /\ [][(markPc = "y490" /\ markPc' \notin {"y490", "dropped"}) =>
            /\ markIter = <<>> => markPc' = "y499"
            /\ markIter # <<>> => Len(markIter') < Len(markIter)]_vars
    /\ [][cycle' = cycle => markLive \subseteq markLive']_vars
    /\ [][(markPc = "y499" /\ markPc' = "done") => markLive \subseteq live']_vars

\* The stream of root 1, which lists 2 and then 0, has failed before it
\* yielded 0: the mark has gone on to root 2 and to its end, and has published
\* 1 and 2; with a live set that was empty before, 0 is not live.
C25_Witness ==
    /\ markPc = "done"
    /\ cycle = 1
    /\ markRoots = {Haf(1, HashSeq), Haf(2, Raw)}
    /\ RootsInOrder(markRoots) = <<Haf(1, HashSeq), Haf(2, Raw)>>
    /\ HashSeqOf(1) = <<2, 0>>
    /\ Yielded("CustomWarning", 490, 1)
    /\ markEvents[Len(markEvents)] = MarkEvent("CustomDebug", 499, NoHash)
    /\ markLive = {1, 2}
    /\ live = {1, 2}

====
